---- MODULE Spec2Model ----
(***************************************************************************)
(* Chess opening-tree generator (src/main.py): the run of main() as a      *)
(* state machine.  The chess library is abstracted to a small game whose   *)
(* legality depends on the position, the engine is the environment.        *)
(***************************************************************************)
EXTENDS Integers, Sequences, FiniteSets, TLC

\* ------------------------------------------------------------------ bounds
\* largest --pgn-depth explored
MaxDepth == 3
\* how far below zero --pgn-depth is explored
NegDepths == 1
\* longest --moves list explored
MaxStartMoves == 2
\* longest principal variation the engine reports
MaxPvLen == 2
\* candidate lines the engine returns over one whole run
MaxTotalLines == 4
\* nested count_nodes calls below the first the interpreter allows before it
\* raises RecursionError (the interpreter's recursion limit, scaled down)
RecursionLimit == 3

\* ------------------------------------------------- the game (chess library)
WHITE == "W"
BLACK == "B"

\* the moves of the abstract game
Moves == {1, 2}

\* "not turn"
Other(turn) == IF turn = WHITE THEN BLACK ELSE WHITE

\* chess.Board(): White to move, nothing played
InitialBoard == [turn |-> WHITE, last |-> 0]

\* board.is_legal(move): legality depends on the position (here: the move
\* just played may not be repeated)
is_legal(position, move) == move \in Moves /\ move # position.last

\* board.push(move) on a copy of the position
push(position, move) == [turn |-> Other(position.turn), last |-> move]

\* the position after pushing every move of a sequence
RECURSIVE PushAll(_, _)
PushAll(position, ms) ==
    IF ms = <<>> THEN position
    ELSE PushAll(push(position, Head(ms)), Tail(ms))

\* ------------------------------------------------------------- small sets
SeqsUpTo(S, n) == UNION {[1..k -> S] : k \in 0..n}

\* analysis.get('pv') when the info holds no 'pv'
NoPv == [none |-> TRUE, moves |-> <<>>]

\* the values analysis.get('pv') can take: None, or a list of moves
PVs == {NoPv} \cup {[none |-> FALSE, moves |-> s] : s \in SeqsUpTo(Moves, MaxPvLen)}

\* "if pv:" -- None and the empty list are both falsy
Truthy(pv) == ~pv.none /\ pv.moves # <<>>

Depths == (0 - NegDepths)..MaxDepth

\* a candidate line that adds no entry to the tree
NoEdge == 0

\* --------------------------------------------------------------- estimate
\* RecursionError raised inside count_nodes
Overflow == 0 - 1

\* mutant: the loop body runs once, whatever the number of moves
AddTimes_once(k, sub, nodes) == nodes + sub

\* "for _ in range(moves): nodes += sub"
RECURSIVE AddTimes(_, _, _)
AddTimes(k, sub, nodes) ==
    IF k = 0 THEN nodes ELSE AddTimes(k - 1, sub, nodes + sub)

\* mutant: the recursive call passes depth on unchanged
RECURSIVE count_nodes_same_depth(_, _, _)
count_nodes_same_depth(depth, turn, fuel) ==
    IF fuel = 0 THEN Overflow
    ELSE IF depth = 0 THEN 0
    ELSE LET moves == IF turn = WHITE THEN 1 ELSE 3
             sub == count_nodes_same_depth(depth, Other(turn), fuel - 1)
         IN IF sub = Overflow THEN Overflow
            ELSE AddTimes(moves, sub, moves)

RECURSIVE count_nodes(_, _, _)
count_nodes(depth, turn, fuel) ==
    IF fuel = 0 THEN Overflow
    ELSE IF depth = 0 THEN 0
    ELSE LET moves == IF turn = WHITE THEN 1 ELSE 3
             sub == count_nodes(depth - 1, Other(turn), fuel - 1)
         IN IF sub = Overflow THEN Overflow
            ELSE AddTimes(moves, sub, moves)

estimate_total_moves(pgn_depth, starting_turn) ==
    count_nodes(pgn_depth, starting_turn, RecursionLimit)

\* ------------------------------------------------------------- validation
\* mutant: three lines are asked for whoever is to move
Multipv_three(position) == 3

\* multipv asked of the engine for a position
Multipv(position) == IF position.turn = WHITE THEN 1 ELSE 3

\* mutant: at an illegal move the loop stops and keeps the legal prefix
RECURSIVE LegalPvLoop_truncate(_, _, _)
LegalPvLoop_truncate(board_copy, pv, legal_pv) ==
    IF pv = <<>> THEN legal_pv
    ELSE IF is_legal(board_copy, Head(pv))
         THEN LegalPvLoop_truncate(push(board_copy, Head(pv)), Tail(pv),
                                   Append(legal_pv, Head(pv)))
         ELSE legal_pv

\* the inner loop over pv: legal_pv after the loop
RECURSIVE LegalPvLoop(_, _, _)
LegalPvLoop(board_copy, pv, legal_pv) ==
    IF pv = <<>> THEN legal_pv
    ELSE IF is_legal(board_copy, Head(pv))
         THEN LegalPvLoop(push(board_copy, Head(pv)), Tail(pv),
                          Append(legal_pv, Head(pv)))
         ELSE <<>>

LegalPv(position, pv) == LegalPvLoop(position, pv, <<>>)

\* mutant: the entry is put in front of the earlier ones
AppendEntry_front(move_tree, move, subsequent_moves) ==
    <<<<move, subsequent_moves>>>> \o move_tree

\* move_tree.append((move, subsequent_moves))
AppendEntry(move_tree, move, subsequent_moves) ==
    Append(move_tree, <<move, subsequent_moves>>)

\* mutant: the recursive call passes pgn_depth on unchanged
ChildDepth_same(pgn_depth) == pgn_depth

\* pgn_depth - 1 of the recursive call
ChildDepth(pgn_depth) == pgn_depth - 1

\* "if pgn_depth == 0: return []"
BaseCase(pgn_depth) == pgn_depth = 0

\* ----------------------------------------------------------------- record
\* chess.pgn.Game() / a child node
NewNode(move) == [move |-> move, variations |-> <<>>]

initialize_pgn_headers == NewNode(0)

\* node.add_main_variation(child): the new variation is moved to the front
add_main_variation(node, child) ==
    [node EXCEPT !.variations = <<child>> \o @]

\* mutant: a side line is added the way the main line is
add_variation_front(node, child) ==
    [node EXCEPT !.variations = <<child>> \o @]

\* node.add_variation(child): appended after the existing variations
add_variation(node, child) ==
    [node EXCEPT !.variations = Append(@, child)]

RECURSIVE add_moves_to_pgn(_, _)
RECURSIVE AddSideLines(_, _)
add_moves_to_pgn(node, move_tree) ==
    IF move_tree = <<>> THEN node
    ELSE LET main_move == move_tree[1][1]
             main_variations == move_tree[1][2]
             main_node == add_moves_to_pgn(NewNode(main_move), main_variations)
         IN AddSideLines(add_main_variation(node, main_node), Tail(move_tree))

\* "for move, variations in move_tree[1:]"
AddSideLines(node, rest) ==
    IF rest = <<>> THEN node
    ELSE LET variation_node ==
                 add_moves_to_pgn(NewNode(rest[1][1]), rest[1][2])
         IN AddSideLines(add_variation(node, variation_node), Tail(rest))

\* the game after add_moves_to_pgn at the node k main-line moves below it
RECURSIVE AtNode(_, _, _)
AtNode(game_node, k, tree) ==
    IF k = 0 THEN add_moves_to_pgn(game_node, tree)
    ELSE [game_node EXCEPT !.variations[1] = AtNode(@, k - 1, tree)]

\* "for move in board.move_stack: node = node.add_main_variation(move)"
RECURSIVE AddInitialMoves(_, _)
AddInitialMoves(game_node, ms) ==
    IF ms = <<>> THEN game_node
    ELSE add_main_variation(game_node, AddInitialMoves(NewNode(Head(ms)), Tail(ms)))

\* ------------------------------------------------------------------ state
VARIABLES
    pc,             \* where main() is
    outcome,        \* how the run ended ("running" until then)
    args,           \* the parsed arguments
    conforms,       \* the engine returns at most multipv lines per call
    engine_open,    \* popen_uci succeeded
    closes,         \* times the engine handle was closed
    board,          \* the starting position
    move_stack,     \* board.move_stack
    game,           \* the PGN game
    node,           \* main-line distance from game to the node built upon
    total_moves,    \* progress_bar.total
    progress,       \* progress_bar.n
    stack,          \* the frames of generate_move_tree, innermost last
    move_tree,      \* the tree generate_move_tree returned to main
    analyse_calls,  \* engine.analyse calls made
    lines_returned, \* candidate lines the engine has returned
    engine_error,   \* engine.analyse raised EngineError
    emitted,        \* add_moves_to_pgn was invoked
    output          \* the output file

vars == <<pc, outcome, args, conforms, engine_open, closes, board, move_stack,
          game, node, total_moves, progress, stack, move_tree, analyse_calls,
          lines_returned, engine_error, emitted, output>>

\* the output file: never opened, opened and left incomplete, or the game
NoFile == [state |-> "absent", content |-> <<>>]
PartialFile == [state |-> "partial", content |-> <<>>]
Written(g) == [state |-> "written", content |-> g]

Init ==
    /\ pc = "start"
    /\ outcome = "running"
    /\ args \in [engine_path : BOOLEAN,
                 moves : SeqsUpTo(Moves, MaxStartMoves),
                 pgn_depth : Depths]
    /\ conforms = TRUE
    /\ engine_open = FALSE
    /\ closes = 0
    /\ board = InitialBoard
    /\ move_stack = <<>>
    /\ game = NewNode(0)
    /\ node = 0
    /\ total_moves = 0
    /\ progress = 0
    /\ stack = <<>>
    /\ move_tree = <<>>
    /\ analyse_calls = 0
    /\ lines_returned = 0
    /\ engine_error = FALSE
    /\ emitted = FALSE
    /\ output = NoFile

\* the run ends; inside "with engine" the handle is closed on the way out
Leave(how, inside_with) ==
    /\ pc' = "exit"
    /\ outcome' = how
    /\ closes' = IF inside_with THEN closes + 1 ELSE closes

\* "if not engine_path: exit(1)"
NoEnginePath ==
    /\ pc = "start"
    /\ ~args.engine_path
    /\ Leave("no_engine_path", FALSE)
    /\ UNCHANGED <<args, conforms, engine_open, board, move_stack, game, node,
                   total_moves, progress, stack, move_tree, analyse_calls,
                   lines_returned, engine_error, emitted, output>>

\* popen_uci
PopenUci ==
    /\ pc = "start"
    /\ args.engine_path
    /\ \/ /\ \E c \in BOOLEAN : conforms' = c
          /\ engine_open' = TRUE
          /\ pc' = "configure"
          /\ UNCHANGED <<outcome, closes>>
       \/ /\ Leave("start_failed", FALSE)
          /\ UNCHANGED <<conforms, engine_open>>
    /\ UNCHANGED <<args, board, move_stack, game, node, total_moves, progress,
                   stack, move_tree, analyse_calls, lines_returned,
                   engine_error, emitted, output>>

\* engine.configure, outside "with engine"
Configure ==
    /\ pc = "configure"
    /\ \/ /\ pc' = "apply_moves"
          /\ UNCHANGED <<outcome, closes>>
       \/ Leave("configure_failed", FALSE)
    /\ UNCHANGED <<args, conforms, engine_open, board, move_stack, game, node,
                   total_moves, progress, stack, move_tree, analyse_calls,
                   lines_returned, engine_error, emitted, output>>

\* the legal prefix of the starting moves
RECURSIVE ParsedPrefix(_, _)
ParsedPrefix(b, ms) ==
    IF ms = <<>> \/ ~is_legal(b, Head(ms)) THEN <<>>
    ELSE <<Head(ms)>> \o ParsedPrefix(push(b, Head(ms)), Tail(ms))

\* "with engine:" entered, the starting moves applied
ApplyMoves ==
    /\ pc = "apply_moves"
    /\ LET done == ParsedPrefix(InitialBoard, args.moves)
       IN IF done = args.moves
          THEN /\ board' = PushAll(InitialBoard, done)
               /\ move_stack' = done
               /\ pc' = "init_record"
               /\ UNCHANGED <<outcome, closes>>
          ELSE /\ Leave("invalid_move", TRUE)
               /\ UNCHANGED <<board, move_stack>>
    /\ UNCHANGED <<args, conforms, engine_open, game, node, total_moves,
                   progress, stack, move_tree, analyse_calls, lines_returned,
                   engine_error, emitted, output>>

\* the game with its headers and the starting moves as main line
InitRecord ==
    /\ pc = "init_record"
    /\ game' = AddInitialMoves(initialize_pgn_headers, move_stack)
    /\ node' = Len(move_stack)
    /\ pc' = "estimate"
    /\ UNCHANGED <<outcome, args, conforms, engine_open, closes, board,
                   move_stack, total_moves, progress, stack, move_tree,
                   analyse_calls, lines_returned, engine_error, emitted, output>>

\* the estimate and the progress bar
Estimate ==
    /\ pc = "estimate"
    /\ LET total == estimate_total_moves(args.pgn_depth, board.turn)
       IN IF total = Overflow
          THEN /\ Leave("recursion_error", TRUE)
               /\ UNCHANGED total_moves
          ELSE /\ total_moves' = total
               /\ pc' = "call_build"
               /\ UNCHANGED <<outcome, closes>>
    /\ UNCHANGED <<args, conforms, engine_open, board, move_stack, game, node,
                   progress, stack, move_tree, analyse_calls, lines_returned,
                   engine_error, emitted, output>>

\* a frame of generate_move_tree on entry.  n: lines engine.analyse returned;
\* i: lines the loop has taken; pv, legal_pv: the loop's variables; verdicts:
\* for each line taken, the move it was accepted with, or NoEdge
Frame(position, pgn_depth) ==
    [position |-> position, pgn_depth |-> pgn_depth, analysed |-> FALSE,
     n |-> 0, i |-> 0, pv |-> NoPv, legal_pv |-> <<>>, move_tree |-> <<>>,
     verdicts |-> <<>>]

\* "if progress_bar:" -- a bar is truthy when its total is positive
ProgressBarTruthy == total_moves > 0

\* mutant: the bar is never advanced
Updated_never(n) == n

\* "if progress_bar: progress_bar.update(1)"
Updated(n) == IF ProgressBarTruthy THEN n + 1 ELSE n

Top == stack[Len(stack)]

\* main calls generate_move_tree
CallGenerate ==
    /\ pc = "call_build"
    /\ stack' = <<Frame(board, args.pgn_depth)>>
    /\ pc' = "build"
    /\ UNCHANGED <<outcome, args, conforms, engine_open, closes, board,
                   move_stack, game, node, total_moves, progress, move_tree,
                   analyse_calls, lines_returned, engine_error, emitted, output>>

\* lines the engine may still return in this run
LinesLeft == MaxTotalLines - lines_returned

\* engine.analyse returns n lines (a single dict is wrapped into a list of
\* one); what each line holds is drawn when the loop reads it
Analyse ==
    /\ pc = "build"
    /\ stack # <<>>
    /\ ~BaseCase(Top.pgn_depth)
    /\ ~Top.analysed
    /\ \E n \in 0..LinesLeft :
          /\ conforms => n <= Multipv(Top.position)
          /\ stack' = [stack EXCEPT ![Len(stack)].analysed = TRUE,
                                    ![Len(stack)].n = n]
          /\ lines_returned' = lines_returned + n
    /\ analyse_calls' = analyse_calls + 1
    /\ UNCHANGED <<pc, outcome, args, conforms, engine_open, closes, board,
                   move_stack, game, node, total_moves, progress, move_tree,
                   engine_error, emitted, output>>

\* mutant: the handler prints the error and goes on with no lines
AnalyseFails_swallowed ==
    /\ pc = "build"
    /\ stack # <<>>
    /\ ~BaseCase(Top.pgn_depth)
    /\ ~Top.analysed
    /\ analyse_calls' = analyse_calls + 1
    /\ engine_error' = TRUE
    /\ stack' = [stack EXCEPT ![Len(stack)].analysed = TRUE]
    /\ UNCHANGED <<pc, outcome, args, conforms, engine_open, closes, board,
                   move_stack, game, node, total_moves, progress, move_tree,
                   lines_returned, emitted, output>>

\* engine.analyse raises EngineError: exit(1) unwinds every frame
AnalyseFails ==
    /\ pc = "build"
    /\ stack # <<>>
    /\ ~BaseCase(Top.pgn_depth)
    /\ ~Top.analysed
    /\ analyse_calls' = analyse_calls + 1
    /\ engine_error' = TRUE
    /\ stack' = <<>>
    /\ Leave("engine_error", TRUE)
    /\ UNCHANGED <<args, conforms, engine_open, board, move_stack, game, node,
                   total_moves, progress, move_tree, lines_returned, emitted,
                   output>>

\* one candidate line is taken and validated; an accepted one recurses, any
\* other one is counted at once
Examine ==
    /\ pc = "build"
    /\ stack # <<>>
    /\ Top.analysed
    /\ Top.i < Top.n
    /\ \E pv \in PVs :
          LET f == Top
              legal_pv == IF Truthy(pv) THEN LegalPv(f.position, pv.moves)
                          ELSE f.legal_pv
              accepted == Truthy(pv) /\ legal_pv # <<>>
              g == [f EXCEPT !.i = f.i + 1, !.pv = pv, !.legal_pv = legal_pv,
                             !.verdicts = Append(@, IF accepted
                                                    THEN Head(legal_pv)
                                                    ELSE NoEdge)]
          IN IF accepted
             THEN /\ stack' = Append([stack EXCEPT ![Len(stack)] = g],
                                     Frame(push(f.position, Head(legal_pv)),
                                           ChildDepth(f.pgn_depth)))
                  /\ UNCHANGED progress
             ELSE /\ stack' = [stack EXCEPT ![Len(stack)] = g]
                  /\ progress' = Updated(progress)
    /\ UNCHANGED <<pc, outcome, args, conforms, engine_open, closes, board,
                   move_stack, game, node, total_moves, move_tree,
                   analyse_calls, lines_returned, engine_error, emitted, output>>

\* a call returns (base case, or the loop is over): into the loop of its
\* caller, which appends the entry and counts the line, or into main
Return ==
    /\ pc = "build"
    /\ stack # <<>>
    /\ BaseCase(Top.pgn_depth) \/ (Top.analysed /\ Top.i = Top.n)
    /\ LET result == Top.move_tree
           k == Len(stack)
       IN IF k = 1
          THEN /\ move_tree' = result
               /\ stack' = <<>>
               /\ pc' = "emit"
               /\ UNCHANGED progress
          ELSE /\ stack' = [SubSeq(stack, 1, k - 1) EXCEPT ![k - 1].move_tree =
                               AppendEntry(@, Head(stack[k - 1].legal_pv), result)]
               /\ progress' = Updated(progress)
               /\ UNCHANGED <<pc, move_tree>>
    /\ UNCHANGED <<outcome, args, conforms, engine_open, closes, board,
                   move_stack, game, node, total_moves, analyse_calls,
                   lines_returned, engine_error, emitted, output>>

\* add_moves_to_pgn(node, move_tree)
Emit ==
    /\ pc = "emit"
    /\ game' = AtNode(game, node, move_tree)
    /\ emitted' = TRUE
    /\ pc' = "save"
    /\ UNCHANGED <<outcome, args, conforms, engine_open, closes, board,
                   move_stack, node, total_moves, progress, stack, move_tree,
                   analyse_calls, lines_returned, engine_error, output>>

\* the PGN file is written; or open() fails, or the export fails after open()
\* has truncated the file: exit(1)
Save ==
    /\ pc = "save"
    /\ \/ /\ output' = Written(game)
          /\ Leave("ok", TRUE)
       \/ /\ output' \in {output, PartialFile}
          /\ Leave("write_failed", TRUE)
    /\ UNCHANGED <<args, conforms, engine_open, board, move_stack, game, node,
                   total_moves, progress, stack, move_tree, analyse_calls,
                   lines_returned, engine_error, emitted>>

Next ==
    \/ NoEnginePath
    \/ PopenUci
    \/ Configure
    \/ ApplyMoves
    \/ InitRecord
    \/ Estimate
    \/ CallGenerate
    \/ Analyse
    \/ AnalyseFails
    \/ Examine
    \/ Return
    \/ Emit
    \/ Save

Spec == Init /\ [][Next]_vars

\* main() runs to its end without waiting on anything but the engine's reply
FairSpec == Spec /\ WF_vars(Next)

\* ---------------------------------------------------- notions of the claims
Max(a, b) == IF a >= b THEN a ELSE b

\* the moves of a tree's entries, in order
MovesOf(tree) == [k \in 1..Len(tree) |-> tree[k][1]]

\* the longest root-to-leaf path of a tree, in moves
RECURSIVE TreeHeight(_)
RECURSIVE MaxHeight(_, _)
TreeHeight(tree) == IF tree = <<>> THEN 0 ELSE 1 + MaxHeight(tree, 0)

MaxHeight(entries, h) ==
    IF entries = <<>> THEN h
    ELSE MaxHeight(Tail(entries), Max(h, TreeHeight(entries[1][2])))

\* the entries of a tree and of its subtrees
RECURSIVE TreeSize(_)
RECURSIVE SumSizes(_, _)
TreeSize(tree) == Len(tree) + SumSizes(tree, 0)

SumSizes(entries, acc) ==
    IF entries = <<>> THEN acc
    ELSE SumSizes(Tail(entries), acc + TreeSize(entries[1][2]))

\* a PGN node's variations read back as a move tree
RECURSIVE ToTree(_)
ToTree(n) ==
    [k \in 1..Len(n.variations) |->
        <<n.variations[k].move, ToTree(n.variations[k])>>]

\* the node k main-line moves below n
RECURSIVE NodeAt(_, _)
NodeAt(n, k) == IF k = 0 THEN n ELSE NodeAt(n.variations[1], k - 1)

\* the first k main-line moves below n, each the only variation of its parent
RECURSIVE SoleLine(_, _)
SoleLine(n, k) ==
    IF k = 0 THEN <<>>
    ELSE IF Len(n.variations) # 1 THEN <<NoEdge>>
    ELSE <<n.variations[1].move>> \o SoleLine(n.variations[1], k - 1)

\* every move of ms is legal when the moves are played in order from position
FullyLegal(position, ms) ==
    \A k \in 1..Len(ms) :
        is_legal(PushAll(position, SubSeq(ms, 1, k - 1)), ms[k])

\* the branching the spec gives each side
Branch(turn) == IF turn = WHITE THEN 1 ELSE 3

\* every node of the tree below a position with `turn` to move keeps to Branch
RECURSIVE WithinBranch(_, _)
WithinBranch(tree, turn) ==
    /\ Len(tree) <= Branch(turn)
    /\ \A k \in 1..Len(tree) : WithinBranch(tree[k][2], Other(turn))

\* estimateCount of the spec
RECURSIVE estimateCount(_, _)
estimateCount(d, side) ==
    IF d = 0 THEN 0
    ELSE Branch(side) + Branch(side) * estimateCount(d - 1, Other(side))

\* frame k waits for the recursive call it made for its current line
Waiting(k) == k < Len(stack)

\* lines returned by the engine that the loops have not yet counted
RECURSIVE PendingLines(_)
PendingLines(k) ==
    IF k = 0 THEN 0
    ELSE (stack[k].n - stack[k].i) + (IF Waiting(k) THEN 1 ELSE 0)
         + PendingLines(k - 1)

BuildOver == pc \in {"emit", "save"} \/ outcome \in {"ok", "write_failed"}

\* ------------------------------------------------------------------ claims

\* C1: once engine.analyse has failed, at the root call or in a nested one,
\* the run is over: no further analyse call is made, add_moves_to_pgn is never
\* invoked and the output file is never opened, so nothing is saved.
C1_EngineFailureAborts ==
    /\ [](engine_error =>
            /\ pc = "exit"
            /\ ~emitted
            /\ output = NoFile
            /\ ToTree(NodeAt(game, node)) = <<>>)
    /\ [][engine_error => analyse_calls' = analyse_calls /\ ~emitted']_vars

\* the engine fails in a nested call, after lines were accepted and counted
C1_Witness ==
    /\ engine_error
    /\ analyse_calls >= 3
    /\ progress >= 1
    /\ closes = 1

\* C2: whenever the engine was started, the handle is closed exactly once by
\* the time the run ends, on every exit path, and never twice.
C2_ReleasedExactlyOnce ==
    /\ closes <= 1
    /\ (pc = "exit" /\ engine_open) => closes = 1

\* C3: the tree built for pgnDepth >= 0 has no path of more than pgnDepth
\* moves, in every frame and in the tree returned to main, and a call with
\* remaining depth 0 returns the empty sequence without calling the engine.
C3_DepthBounded ==
    args.pgn_depth >= 0 =>
        /\ TreeHeight(move_tree) <= args.pgn_depth
        /\ \A k \in 1..Len(stack) :
              /\ stack[k].pgn_depth = args.pgn_depth - (k - 1)
              /\ stack[k].pgn_depth >= 0
              /\ TreeHeight(stack[k].move_tree) <= stack[k].pgn_depth
              /\ stack[k].pgn_depth = 0 =>
                    ~stack[k].analysed /\ stack[k].move_tree = <<>>
        /\ (args.pgn_depth = 0 /\ pc # "start") =>
              analyse_calls = 0 /\ move_tree = <<>>

\* a finished build whose tree is as deep as pgnDepth = 2 allows
C3_Witness ==
    /\ pc = "emit"
    /\ args.pgn_depth = 2
    /\ TreeHeight(move_tree) = 2

\* C4: in every call, the moves of the entries are the first moves of the
\* lines that passed validation, in the engine's order: no gap or placeholder
\* for a rejected line, none dropped or reordered, at most one per line.
C4_RankCompacted ==
    \A k \in 1..Len(stack) :
        LET f == stack[k]
            kept == SelectSeq(f.verdicts, LAMBDA v : v # NoEdge)
        IN /\ Len(f.verdicts) = f.i
           /\ f.i <= f.n
           /\ kept = IF Waiting(k)
                     THEN Append(MovesOf(f.move_tree), f.verdicts[f.i])
                     ELSE MovesOf(f.move_tree)

\* three lines returned, only the second validates: one entry
C4_Witness ==
    /\ stack # <<>>
    /\ Top.n = 3
    /\ Top.i = 3
    /\ Top.verdicts[1] = NoEdge
    /\ Top.verdicts[2] # NoEdge
    /\ Top.verdicts[3] = NoEdge
    /\ Len(Top.move_tree) = 1

\* C5: a line adds an edge iff it is non-empty and every move of it is legal
\* in order from the node's position; a line with an illegal move at a later
\* index adds nothing; the edge of an accepted line is its first move.
C5_AllOrNothing ==
    \A k \in 1..Len(stack) :
        LET f == stack[k]
            whole == Truthy(f.pv) /\ FullyLegal(f.position, f.pv.moves)
        IN f.i >= 1 =>
              /\ (f.verdicts[f.i] # NoEdge) <=> whole
              /\ whole => /\ f.verdicts[f.i] = f.pv.moves[1]
                          /\ f.legal_pv = f.pv.moves
              /\ Waiting(k) =>
                    /\ whole
                    /\ stack[k + 1].position = push(f.position, f.pv.moves[1])
              /\ (~Waiting(k) /\ whole) =>
                    f.move_tree[Len(f.move_tree)][1] = f.pv.moves[1]
              /\ (~Waiting(k) /\ ~whole /\ f.i = 1) => f.move_tree = <<>>

\* a line whose first move is legal and whose second is not was rejected
C5_Witness ==
    /\ stack # <<>>
    /\ Top.i >= 1
    /\ ~Top.pv.none
    /\ Len(Top.pv.moves) = 2
    /\ is_legal(Top.position, Top.pv.moves[1])
    /\ ~is_legal(push(Top.position, Top.pv.moves[1]), Top.pv.moves[2])
    /\ Top.verdicts[Top.i] = NoEdge

\* C6: after add_moves_to_pgn the node holds one child per entry, in the
\* entries' order, entry 0 first and the others beside it under the same
\* parent, recursively; the moves played before it stay a single main line.
C6_EmittedAsSiblings ==
    emitted =>
        /\ ToTree(NodeAt(game, node)) = move_tree
        /\ SoleLine(game, node) = move_stack

\* a record with a side variation that has a continuation of its own
C6_Witness ==
    /\ emitted
    /\ Len(move_tree) >= 2
    /\ move_tree[1][1] # move_tree[2][1]
    /\ move_tree[2][2] # <<>>

\* C7: in a build that is not cut short, every line the engine has returned
\* is counted once as soon as its iteration ends, accepted or not; at the end
\* the count is the number of lines returned, not the number of edges.
C7_ProgressPerLine ==
    ~engine_error =>
        /\ progress + PendingLines(Len(stack)) = lines_returned
        /\ BuildOver => progress = lines_returned

\* a finished build that counted more lines than it accepted
C7_Witness ==
    /\ pc = "emit"
    /\ lines_returned = 4
    /\ progress = 4
    /\ TreeSize(move_tree) = 2

\* C8 as stated: a White node has at most 1 child and a Black node at most 3,
\* however many lines the engine returns.
C8_BranchingAlways ==
    /\ WithinBranch(move_tree, board.turn)
    /\ \A k \in 1..Len(stack) :
          WithinBranch(stack[k].move_tree, stack[k].position.turn)

\* C8 amended: a node never has more children than lines the engine returned
\* for it, so with an engine that returns at most multipv lines per call a
\* White node has at most 1 child and a Black node at most 3.
C8_BranchingWhenConforming ==
    /\ \A k \in 1..Len(stack) : Len(stack[k].move_tree) <= stack[k].n
    /\ conforms =>
          /\ WithinBranch(move_tree, board.turn)
          /\ \A k \in 1..Len(stack) :
                /\ stack[k].n <= Branch(stack[k].position.turn)
                /\ WithinBranch(stack[k].move_tree, stack[k].position.turn)

\* a Black node with three children under a conforming engine
C8_Witness ==
    /\ conforms
    /\ pc = "emit"
    /\ board.turn = BLACK
    /\ Len(move_tree) = 3

\* C9 as stated: the notifications never exceed the estimate.
C9_NeverOverrun == progress <= total_moves

\* C9 amended: the estimate is the recurrence's value, and with an engine
\* that returns at most multipv lines per call the notifications never exceed
\* it.
C9_NeverOverrunWhenConforming ==
    /\ pc \in {"call_build", "build", "emit", "save"} =>
          total_moves = estimateCount(args.pgn_depth, board.turn)
    /\ conforms => progress <= total_moves

\* a two-level build under a conforming engine that uses up the estimate
C9_Witness ==
    /\ conforms
    /\ pc = "emit"
    /\ args.pgn_depth = 2
    /\ total_moves = 4
    /\ progress = total_moves

\* C10 as stated: for every pgn-depth, negative ones included, the
\* recursions reach their base case (no RecursionError where the depth's
\* absolute size is not the cause).
C10_EveryDepthReturns ==
    args.pgn_depth < RecursionLimit => outcome # "recursion_error"

\* C10 amended: for every pgn-depth >= 0 below the recursion limit the
\* recursions reach their base case and the run ends.
C10_NonNegativeDepthTerminates ==
    /\ []((args.pgn_depth >= 0 /\ args.pgn_depth < RecursionLimit) =>
            /\ outcome # "recursion_error"
            /\ Len(stack) <= args.pgn_depth + 1
            /\ \A k \in 1..Len(stack) : stack[k].pgn_depth >= 0)
    /\ ((args.pgn_depth >= 0 /\ args.pgn_depth < RecursionLimit)
            ~> (pc = "exit"))

\* a run with pgn-depth 2 that built a two-level tree and ended normally
C10_Witness ==
    /\ pc = "exit"
    /\ outcome = "ok"
    /\ args.pgn_depth = 2
    /\ TreeHeight(move_tree) = 2

====
